---------------------------- MODULE Spec2Model ----------------------------
(***************************************************************************)
(* A model of DrawIOProcessor (src/src/drawio_processor.py): the pattern   *)
(* evaluators, the field extractor and the per-template scan.              *)
(*                                                                         *)
(* A Python str is a sequence of one-character strings: "a;b" is           *)
(* <<"a", ";", "b">>.  A dict is a sequence of <<key, value>> pairs in     *)
(* insertion order.                                                        *)
(***************************************************************************)
EXTENDS Integers, Sequences, FiniteSets, TLC

VARIABLES
    pattern,        \* evaluator input: the pattern string
    style,          \* evaluator input: the element's style attribute
    value,          \* evaluator input: the element's value attribute
    called,         \* which evaluator call has returned ("none" before any)
    ret,            \* the boolean that call returned
    retGroup,       \* for the general evaluator: index of the OR-part whose
                    \* match made it return True, 0 when it fell through
    template_config,\* extractor input: one template's configuration
    extracted,      \* what _extract_data_from_element returned, or that it raised
    matched_objects,\* the list the loop body of _find_objects_for_template
                    \* appended to, or that it raised
    disk,           \* the drawio file: missing, malformed, or its nodes
    templates,      \* what load_stencil_templates returns
    selected_file,  \* self.selected_file
    pc,             \* where find_stencils_by_all_templates stands
    idx,            \* position of its loop in templates.items()
    results_by_template, \* its local dict
    returned,       \* the dict it returned
    roots           \* what parse_drawio_structure returned in each iteration

evalVars == <<pattern, style, value, called, ret, retGroup>>
extractVars == <<template_config, extracted, matched_objects>>
scanVars == <<disk, templates, selected_file, pc, idx, results_by_template,
              returned, roots>>
vars == <<evalVars, extractVars, scanVars>>

---------------------------------------------------------------------------
(* Bounds of the model.                                                    *)

MaxPatternLen == 4
MaxStyleLen == 1
MaxValueLen == 1
MaxExtractValueLen == 2
MaxParsers == 2
MaxNodes == 2
MaxTemplates == 2

---------------------------------------------------------------------------
(* Python str primitives, on sequences of characters.                      *)

\* str.lower() on the model's alphabet.
LowerChar(c) ==
    CASE c = "A" -> "a"
      [] c = "B" -> "b"
      [] c = "S" -> "s"
      [] OTHER -> c

Lower(s) == [i \in 1..Len(s) |-> LowerChar(s[i])]

IsSpace(c) == c = " "

RECURSIVE LStrip(_)
LStrip(s) ==
    IF s # <<>> /\ IsSpace(Head(s)) THEN LStrip(Tail(s)) ELSE s

RECURSIVE RStrip(_)
RStrip(s) ==
    IF s # <<>> /\ IsSpace(s[Len(s)]) THEN RStrip(SubSeq(s, 1, Len(s) - 1)) ELSE s

\* str.strip()
Strip(s) == RStrip(LStrip(s))

\* sub in s
Contains(sub, s) ==
    \E i \in 0..(Len(s) - Len(sub)) : SubSeq(s, i + 1, i + Len(sub)) = sub

\* Index of the first d in s at or after position i, Len(s) + 1 when none.
RECURSIVE FindChar(_, _, _)
FindChar(s, d, i) ==
    IF i > Len(s) \/ s[i] = d THEN i ELSE FindChar(s, d, i + 1)

\* s.split(d) for a one-character separator: always at least one piece.
RECURSIVE Split(_, _)
Split(s, d) ==
    LET k == FindChar(s, d, 1) IN
    IF k > Len(s) THEN <<s>>
    ELSE <<SubSeq(s, 1, k - 1)>> \o Split(SubSeq(s, k + 1, Len(s)), d)

\* search_text = (style + ' ' + value).lower()
SearchText(st, va) == Lower(st \o <<" ">> \o va)

---------------------------------------------------------------------------
(* _evaluate_simple_pattern                                                *)

\* Variant: the criterion is stripped but not lower-cased.
RECURSIVE simple_loop_nolower(_, _, _)
simple_loop_nolower(criteria, k, search_text) ==
    IF k > Len(criteria) THEN TRUE
    ELSE LET criterion == Strip(criteria[k]) IN
         IF criterion # <<>> /\ ~Contains(criterion, search_text) THEN FALSE
         ELSE simple_loop_nolower(criteria, k + 1, search_text)

\* for criterion in criteria: ... return False on the first criterion that
\* is non-empty after strip().lower() and not in search_text; True otherwise
RECURSIVE simple_loop(_, _, _)
simple_loop(criteria, k, search_text) ==
    IF k > Len(criteria) THEN TRUE
    ELSE LET criterion == Lower(Strip(criteria[k])) IN
         IF criterion # <<>> /\ ~Contains(criterion, search_text) THEN FALSE
         ELSE simple_loop(criteria, k + 1, search_text)

\* Variant: criteria compared without lower-casing.
evaluate_simple_pattern_nolower(p, st, va) ==
    simple_loop_nolower(Split(p, ";"), 1, SearchText(st, va))

\* Variant: criteria split on ':' instead of ';'.
evaluate_simple_pattern_colon(p, st, va) ==
    simple_loop(Split(p, ":"), 1, SearchText(st, va))

evaluate_simple_pattern(p, st, va) ==
    simple_loop(Split(p, ";"), 1, SearchText(st, va))

---------------------------------------------------------------------------
(* _evaluate_complex_pattern                                               *)

\* and_parts.append((op, part)) guarded by `if current_part.strip()`
FlushCurrent(and_parts, current_part) ==
    IF Strip(current_part) # <<>>
    THEN Append(and_parts, <<"AND", Strip(current_part)>>)
    ELSE and_parts

\* Variant: the negated part runs to the end of or_part, not to the next ';'.
RECURSIVE scan_or_part_to_end(_, _, _, _)
scan_or_part_to_end(or_part, i, current_part, and_parts) ==
    IF i > Len(or_part) THEN FlushCurrent(and_parts, current_part)
    ELSE IF or_part[i] = "!" THEN
        Append(FlushCurrent(and_parts, current_part),
               <<"NOT", Strip(SubSeq(or_part, i + 1, Len(or_part)))>>)
    ELSE IF or_part[i] = ";" THEN
        IF Strip(current_part) # <<>>
        THEN scan_or_part_to_end(or_part, i + 1, <<>>, FlushCurrent(and_parts, current_part))
        ELSE scan_or_part_to_end(or_part, i + 1, current_part, and_parts)
    ELSE scan_or_part_to_end(or_part, i + 1, Append(current_part, or_part[i]), and_parts)

\* Variant: '!' opens a negated part only where current_part is blank; after
\* other text it is one more character of current_part.
RECURSIVE scan_or_part_leading_only(_, _, _, _)
scan_or_part_leading_only(or_part, i, current_part, and_parts) ==
    IF i > Len(or_part) THEN FlushCurrent(and_parts, current_part)
    ELSE IF or_part[i] = "!" /\ Strip(current_part) = <<>> THEN
        LET j == FindChar(or_part, ";", i + 1)
            negated_part == SubSeq(or_part, i + 1, j - 1)
        IN scan_or_part_leading_only(or_part, j, <<>>,
               Append(and_parts, <<"NOT", Strip(negated_part)>>))
    ELSE IF or_part[i] = ";" THEN
        IF Strip(current_part) # <<>>
        THEN scan_or_part_leading_only(or_part, i + 1, <<>>,
                 FlushCurrent(and_parts, current_part))
        ELSE scan_or_part_leading_only(or_part, i + 1, current_part, and_parts)
    ELSE scan_or_part_leading_only(or_part, i + 1,
             Append(current_part, or_part[i]), and_parts)

\* The while loop over or_part (i is 1-based here), with its local state
\* current_part and and_parts; returns and_parts after the trailing flush.
RECURSIVE scan_or_part(_, _, _, _)
scan_or_part(or_part, i, current_part, and_parts) ==
    IF i > Len(or_part) THEN FlushCurrent(and_parts, current_part)
    ELSE IF or_part[i] = "!" THEN
        \* the inner loop runs to the next ';' or to the end of or_part
        LET j == FindChar(or_part, ";", i + 1)
            negated_part == SubSeq(or_part, i + 1, j - 1)
        IN scan_or_part(or_part, j, <<>>,
               Append(FlushCurrent(and_parts, current_part),
                      <<"NOT", Strip(negated_part)>>))
    ELSE IF or_part[i] = ";" THEN
        \* current_part is reset only when it was appended
        IF Strip(current_part) # <<>>
        THEN scan_or_part(or_part, i + 1, <<>>, FlushCurrent(and_parts, current_part))
        ELSE scan_or_part(or_part, i + 1, current_part, and_parts)
    ELSE scan_or_part(or_part, i + 1, Append(current_part, or_part[i]), and_parts)

\* Variant: a NOT part is tested like an AND part (the negation is lost).
and_parts_match_no_negation(and_parts, search_text) ==
    \A k \in 1..Len(and_parts) :
        LET part == and_parts[k][2]
        IN ~(part # <<>> /\ ~Contains(Lower(part), search_text))

\* Variant: the `part and` guard of the NOT branch is missing.
and_parts_match_no_guard(and_parts, search_text) ==
    \A k \in 1..Len(and_parts) :
        LET op == and_parts[k][1]
            part == and_parts[k][2]
        IN IF op = "AND"
           THEN ~(part # <<>> /\ ~Contains(Lower(part), search_text))
           ELSE ~Contains(Lower(part), search_text)

\* for op, part in and_parts: ... or_part_match
and_parts_match(and_parts, search_text) ==
    \A k \in 1..Len(and_parts) :
        LET op == and_parts[k][1]
            part == and_parts[k][2]
        IN IF op = "AND"
           THEN ~(part # <<>> /\ ~Contains(Lower(part), search_text))
           ELSE ~(part # <<>> /\ Contains(Lower(part), search_text))

or_part_match(or_part, search_text) ==
    and_parts_match(scan_or_part(or_part, 1, <<>>, <<>>), search_text)

\* Variant: only the first or_part is tried.
complex_loop_first_only(or_parts, k, search_text) ==
    IF or_part_match(or_parts[1], search_text) THEN 1 ELSE 0

\* for or_part in or_parts: the index of the first matching part (the loop
\* returns True there), 0 when the loop ends and the function returns False
RECURSIVE complex_loop(_, _, _)
complex_loop(or_parts, k, search_text) ==
    IF k > Len(or_parts) THEN 0
    ELSE IF or_part_match(or_parts[k], search_text) THEN k
    ELSE complex_loop(or_parts, k + 1, search_text)

complex_deciding_part(p, st, va) ==
    complex_loop(Split(p, "|"), 1, SearchText(st, va))

evaluate_complex_pattern(p, st, va) ==
    complex_deciding_part(p, st, va) # 0

---------------------------------------------------------------------------
(* _element_matches_template                                               *)

HasOperator(p) == \E i \in 1..Len(p) : p[i] = "|" \/ p[i] = "!"

\* the body of `for pattern in template_config['patterns']`
pattern_matches(p, st, va) ==
    IF HasOperator(p)
    THEN evaluate_complex_pattern(p, st, va)
    ELSE evaluate_simple_pattern(p, st, va)

\* config (template_config) is a function whose domain is the set of keys
\* present
\* Variant: a configuration without 'patterns' accepts every element.
element_matches_template_default_true(st, va, config) ==
    IF "patterns" \in DOMAIN config
    THEN \E k \in 1..Len(config["patterns"]) :
             pattern_matches(config["patterns"][k], st, va)
    ELSE TRUE

element_matches_template(st, va, config) ==
    IF "patterns" \in DOMAIN config
    THEN \E k \in 1..Len(config["patterns"]) :
             pattern_matches(config["patterns"][k], st, va)
    ELSE FALSE

---------------------------------------------------------------------------
(* dict, and the outcome of a call that may raise.                         *)

\* {}: also the template configuration with no key at all
NoKeys == [k \in {} |-> <<>>]

\* A call returned v / a call let an exception escape.
Returned(v) == [raised |-> FALSE, val |-> v]
Raised == [raised |-> TRUE, val |-> <<>>]

DictKeys(d) == {d[i][1] : i \in 1..Len(d)}

DictGet(d, key) == d[CHOOSE i \in 1..Len(d) : d[i][1] = key][2]

\* Variant: d.setdefault(key, val): an existing binding is kept.
DictSetDefault(d, key, val) ==
    IF key \in DictKeys(d) THEN d ELSE Append(d, <<key, val>>)

\* d[key] = val: an existing key keeps its place and takes the new value,
\* a new key goes to the end
DictSet(d, key, val) ==
    IF key \in DictKeys(d)
    THEN [i \in 1..Len(d) |-> IF d[i][1] = key THEN <<key, val>> ELSE d[i]]
    ELSE Append(d, <<key, val>>)

---------------------------------------------------------------------------
(* re.findall(regex_pattern, value, re.IGNORECASE)                         *)
(* A regex is [kind |-> "lit", text |-> t], matching the literal text t,   *)
(* or [kind |-> "bad", text |-> t], a pattern re cannot compile.           *)

Lit(t) == [kind |-> "lit", text |-> t]
Bad == [kind |-> "bad", text |-> <<"(">>]

\* re.compile raises re.error
findall_raises(regex) == regex.kind = "bad"

\* All non-overlapping matches of the literal from position pos on, left to
\* right; the empty literal matches once at every position, the end included.
RECURSIVE findall_from(_, _, _)
findall_from(lit, va, pos) ==
    LET n == Len(lit) IN
    IF n = 0 THEN
        IF pos > Len(va) + 1 THEN <<>>
        ELSE <<<<>>>> \o findall_from(lit, va, pos + 1)
    ELSE IF pos + n - 1 > Len(va) THEN <<>>
    ELSE IF Lower(SubSeq(va, pos, pos + n - 1)) = Lower(lit)
         THEN <<SubSeq(va, pos, pos + n - 1)>> \o findall_from(lit, va, pos + n)
         ELSE findall_from(lit, va, pos + 1)

findall(regex, va) == findall_from(regex.text, va, 1)

---------------------------------------------------------------------------
(* _extract_data_from_element                                              *)

\* Variant: the `if matches` guard is missing.
extract_pair_unguarded(acc, data_name, regex_pattern, va) ==
    IF acc.raised THEN acc
    ELSE IF findall_raises(regex_pattern) THEN Raised
    ELSE Returned(DictSet(acc.val, data_name, findall(regex_pattern, va)))

\* Variant: a name already bound is not bound again.
extract_pair_first_wins(acc, data_name, regex_pattern, va) ==
    IF acc.raised THEN acc
    ELSE IF findall_raises(regex_pattern) THEN Raised
    ELSE LET matches == findall(regex_pattern, va) IN
         IF matches # <<>>
         THEN Returned(DictSetDefault(acc.val, data_name, matches))
         ELSE acc

\* matches = re.findall(...); if matches: extracted_data[data_name] = matches
\* acc is the outcome so far: once an exception escaped, nothing more runs
extract_pair(acc, data_name, regex_pattern, va) ==
    IF acc.raised THEN acc
    ELSE IF findall_raises(regex_pattern) THEN Raised
    ELSE LET matches == findall(regex_pattern, va) IN
         IF matches # <<>>
         THEN Returned(DictSet(acc.val, data_name, matches))
         ELSE acc

\* for data_name, regex_pattern in parser_item.items()
RECURSIVE extract_items_loop(_, _, _, _)
extract_items_loop(items, j, va, acc) ==
    IF j > Len(items) THEN acc
    ELSE extract_items_loop(items, j + 1, va,
             extract_pair(acc, items[j][1], items[j][2], va))

\* for parser_item in template_config['parsers']
RECURSIVE extract_parsers_loop(_, _, _, _)
extract_parsers_loop(parsers, k, va, acc) ==
    IF k > Len(parsers) THEN acc
    ELSE extract_parsers_loop(parsers, k + 1, va,
             extract_items_loop(parsers[k], 1, va, acc))

extract_data_from_element(va, config) ==
    IF "parsers" \in DOMAIN config
    THEN extract_parsers_loop(config["parsers"], 1, va, Returned(<<>>))
    ELSE Returned(<<>>)

---------------------------------------------------------------------------
(* _create_object_info and the loop body of _find_objects_for_template     *)

\* A document node: [tag, id, style, value, parent, vertex]; an attribute
\* the node lacks reads as '' (element.get(name, '')).
\* 'geometry' (element.find('mxGeometry')) is passed through and left out.
create_object_info(element, st, va, template_name, config) ==
    LET extracted_data == extract_data_from_element(va, config) IN
    IF extracted_data.raised THEN Raised
    ELSE Returned([id |-> element.id,
                   value |-> va,
                   style |-> st,
                   parent |-> element.parent,
                   vertex |-> element.vertex,
                   matched_type |-> template_name,
                   schema |-> IF "schema" \in DOMAIN config
                              THEN config["schema"] ELSE "none",
                   extracted_data |-> extracted_data.val])

Marker == <<"s", "h", "a", "p", "e", "=", "s", "t", "e", "n", "c", "i", "l", "(">>

\* if element.tag == 'mxCell': ... if 'shape=stencil(' in style.lower():
IsCandidate(element) ==
    /\ element.tag = "mxCell"
    /\ Contains(Marker, Lower(element.style))

\* Variant: one record is appended for every pattern that matches.
RECURSIVE append_times(_, _, _)
append_times(list, x, n) ==
    IF n = 0 THEN list ELSE append_times(Append(list, x), x, n - 1)

find_objects_step_per_pattern(acc, element, config, template_name) ==
    IF acc.raised THEN acc
    ELSE IF IsCandidate(element)
            /\ element_matches_template(element.style, element.value, config)
    THEN LET obj_info == create_object_info(element, element.style, element.value,
                                            template_name, config)
             n == Cardinality({k \in 1..Len(config["patterns"]) :
                      pattern_matches(config["patterns"][k],
                                      element.style, element.value)})
         IN IF obj_info.raised THEN Raised
            ELSE Returned(append_times(acc.val, obj_info.val, n))
    ELSE acc

\* The body of `for element in root.iter()`, on the list built so far.
find_objects_step(acc, element, config, template_name) ==
    IF acc.raised THEN acc
    ELSE IF IsCandidate(element)
            /\ element_matches_template(element.style, element.value, config)
    THEN LET obj_info == create_object_info(element, element.style, element.value,
                                            template_name, config)
         IN IF obj_info.raised THEN Raised
            ELSE Returned(Append(acc.val, obj_info.val))
    ELSE acc

---------------------------------------------------------------------------
(* parse_drawio_structure, _find_objects_for_template                      *)

\* read_file_content returns None for a file it cannot read, and
\* ET.fromstring raises ParseError on a malformed one: both give None.
\* nodes is root.iter(): the nodes of the tree in document order.
parse_drawio_structure(file) ==
    IF file.state = "ok"
    THEN [ok |-> TRUE, nodes |-> file.nodes]
    ELSE [ok |-> FALSE, nodes |-> <<>>]

\* for element in root.iter()
RECURSIVE find_objects_loop(_, _, _, _, _)
find_objects_loop(nodes, k, config, template_name, acc) ==
    IF k > Len(nodes) THEN acc
    ELSE find_objects_loop(nodes, k + 1, config, template_name,
             find_objects_step(acc, nodes[k], config, template_name))

find_objects_for_template(config, file, template_name) ==
    LET root == parse_drawio_structure(file) IN
    IF ~root.ok THEN Returned(<<>>)
    ELSE find_objects_loop(root.nodes, 1, config, template_name, Returned(<<>>))

\* Variant: a template without matches gets no entry.
store_result_nonempty(results, template_name, objects) ==
    IF objects = <<>> THEN results ELSE DictSet(results, template_name, objects)

\* results_by_template[template_name] = matched_objects
store_result(results, template_name, objects) ==
    DictSet(results, template_name, objects)

\* The loop of find_stencils_by_all_templates over a file that stays as it
\* is: the mapping returned, or the re.error that leaves the method.
RECURSIVE find_stencils_loop(_, _, _)
find_stencils_loop(items, file, results) ==
    IF items = <<>> THEN Returned(results)
    ELSE LET template_name == Head(items)[1]
             objects == find_objects_for_template(Head(items)[2], file, template_name)
         IN IF objects.raised THEN Raised
            ELSE find_stencils_loop(Tail(items), file,
                     store_result(results, template_name, objects.val))

---------------------------------------------------------------------------
(* Inputs of the evaluator specification.                                  *)

Strs(chars, n) == UNION {[1..k -> chars] : k \in 0..n}

PatternChars == {"a", "B", ";", "|", "!", " "}
StyleChars == {"A"}
ValueChars == {"b", "!"}

ExampleInputs ==
    { \* "a:!b" against "contains a but not b" and against "contains a and b"
      [pattern |-> <<"a", ":", "!", "b">>,
       style |-> <<"c", "o", "n", "t", "a", "i", "n", "s">>,
       value |-> <<"a", " ", "b", "u", "t", " ", "n", "o", "t", " ", "b">>],
      [pattern |-> <<"a", ":", "!", "b">>,
       style |-> <<"c", "o", "n", "t", "a", "i", "n", "s">>,
       value |-> <<"a", " ", "a", "n", "d", " ", "b">>],
      \* "a;!b" against "contains a" and against "contains a and b"
      [pattern |-> <<"a", ";", "!", "b">>,
       style |-> <<"c", "o", "n", "t", "a", "i", "n", "s">>,
       value |-> <<"a">>],
      [pattern |-> <<"a", ";", "!", "b">>,
       style |-> <<"c", "o", "n", "t", "a", "i", "n", "s">>,
       value |-> <<"a", " ", "a", "n", "d", " ", "b">>],
      \* "a:b" and "a;b" against "xay b z" and against "xay"
      [pattern |-> <<"a", ":", "b">>,
       style |-> <<"x", "a", "y">>, value |-> <<"b", " ", "z">>],
      [pattern |-> <<"a", ":", "b">>,
       style |-> <<"x", "a", "y">>, value |-> <<>>],
      [pattern |-> <<"a", ";", "b">>,
       style |-> <<"x", "a", "y">>, value |-> <<"b", " ", "z">>],
      [pattern |-> <<"a", ";", "b">>,
       style |-> <<"x", "a", "y">>, value |-> <<>>],
      \* "a|b" against "only b here"
      [pattern |-> <<"a", "|", "b">>,
       style |-> <<"o", "n", "l", "y">>,
       value |-> <<"b", " ", "h", "e", "r", "e">>],
      \* "a!b" and "!a!b" against "a!b c"
      [pattern |-> <<"a", "!", "b">>,
       style |-> <<"a", "!", "b">>, value |-> <<"c">>],
      [pattern |-> <<"!", "a", "!", "b">>,
       style |-> <<"a", "!", "b">>, value |-> <<"c">>] }

EvalInputs ==
    [pattern : Strs(PatternChars, MaxPatternLen),
     style : Strs(StyleChars, MaxStyleLen),
     value : Strs(ValueChars, MaxValueLen)]
    \cup ExampleInputs

---------------------------------------------------------------------------
(* The evaluator specification: one call of one of the three methods on    *)
(* an input drawn at Init.                                                 *)

InitEval ==
    /\ \E in \in EvalInputs :
          /\ pattern = in.pattern
          /\ style = in.style
          /\ value = in.value
    /\ called = "none"
    /\ ret = FALSE
    /\ retGroup = 0
    /\ template_config = NoKeys
    /\ extracted = Returned(<<>>)
    /\ matched_objects = Returned(<<>>)
    /\ disk = [state |-> "missing", nodes |-> <<>>]
    /\ templates = [loaded |-> FALSE, items |-> <<>>]
    /\ selected_file = "None"
    /\ pc = "idle"
    /\ idx = 0
    /\ results_by_template = <<>>
    /\ returned = <<>>
    /\ roots = <<>>

CallSimple ==
    /\ called = "none"
    /\ called' = "simple"
    /\ ret' = evaluate_simple_pattern(pattern, style, value)
    /\ UNCHANGED <<pattern, style, value, retGroup, extractVars, scanVars>>

CallComplex ==
    /\ called = "none"
    /\ called' = "complex"
    /\ ret' = evaluate_complex_pattern(pattern, style, value)
    /\ retGroup' = complex_deciding_part(pattern, style, value)
    /\ UNCHANGED <<pattern, style, value, extractVars, scanVars>>

CallMatches ==
    /\ called = "none"
    /\ called' = "matches"
    /\ ret' = element_matches_template(style, value, [patterns |-> <<pattern>>])
    /\ UNCHANGED <<pattern, style, value, retGroup, extractVars, scanVars>>

NextEval == CallSimple \/ CallComplex \/ CallMatches

SpecEval == InitEval /\ [][NextEval]_vars

---------------------------------------------------------------------------
(* The extractor specification: one element and one template drawn at      *)
(* Init; one call of _extract_data_from_element, or one run of the loop    *)
(* body of _find_objects_for_template on the element.                      *)

ExtractValueChars == {"a", "A", "b"}
FieldNames == {"ip", "host"}
Regexes == {Lit(<<"a">>), Lit(<<"b">>), Lit(<<>>), Bad}

\* a parser item is a dict with one entry, as in `- ip: '<regex>'`
ParserItems == {<< <<n, r>> >> : n \in FieldNames, r \in Regexes}

ParserLists == UNION {[1..k -> ParserItems] : k \in 0..MaxParsers}

\* '' matches every element, 'b' those whose text contains b
ExtractPatternLists == {<< <<>> >>, << <<"b">> >>}

ExtractConfigs ==
    {NoKeys}
    \cup {[patterns |-> ps] : ps \in ExtractPatternLists}
    \cup {[parsers |-> pl] : pl \in ParserLists}
    \cup {[patterns |-> ps, parsers |-> pl] :
              ps \in ExtractPatternLists, pl \in ParserLists}

TheElement ==
    [tag |-> "mxCell", id |-> 1, style |-> style, value |-> value,
     parent |-> 1, vertex |-> 1]

TemplateName == "T"

InitExtract ==
    /\ pattern = <<>>
    /\ style \in {Marker, <<>>}
    /\ value \in Strs(ExtractValueChars, MaxExtractValueLen)
    /\ called = "none"
    /\ ret = FALSE
    /\ retGroup = 0
    /\ template_config \in ExtractConfigs
    /\ extracted = Returned(<<>>)
    /\ matched_objects = Returned(<<>>)
    /\ disk = [state |-> "missing", nodes |-> <<>>]
    /\ templates = [loaded |-> FALSE, items |-> <<>>]
    /\ selected_file = "None"
    /\ pc = "idle"
    /\ idx = 0
    /\ results_by_template = <<>>
    /\ returned = <<>>
    /\ roots = <<>>

CallExtract ==
    /\ called = "none"
    /\ called' = "extract"
    /\ extracted' = extract_data_from_element(value, template_config)
    /\ UNCHANGED <<pattern, style, value, ret, retGroup, template_config, matched_objects,
                   scanVars>>

CallFindStep ==
    /\ called = "none"
    /\ called' = "find_step"
    /\ matched_objects' =
           find_objects_step(Returned(<<>>), TheElement, template_config, TemplateName)
    /\ UNCHANGED <<pattern, style, value, ret, retGroup, template_config, extracted,
                   scanVars>>

NextExtract == CallExtract \/ CallFindStep

SpecExtract == InitExtract /\ [][NextExtract]_vars

---------------------------------------------------------------------------
(* The scan specification: find_stencils_by_all_templates on a file and a  *)
(* template set drawn at Init.  Every loop iteration reads and parses the  *)
(* file again, so the file may be rewritten between two iterations.        *)

MarkerUpper == <<"S", "h", "a", "p", "e", "=", "S", "t", "e", "n", "c", "i", "l", "(">>

\* [tag, style, value] of the nodes a document is made of
NodeKinds ==
    { <<"mxCell", MarkerUpper, <<"b">> >>,   \* a stencil containing b
      <<"mxCell", Marker, <<"x">> >>,        \* a stencil containing x
      <<"mxCell", Marker, <<>> >>,           \* a stencil without value
      <<"mxCell", <<"b">>, <<"b">> >>,       \* a cell that is no stencil
      <<"object", Marker, <<"b">> >> }       \* a stencil style on another tag

\* the node of kind nk with id i
Node(nk, i) ==
    [tag |-> nk[1], id |-> i, style |-> nk[2], value |-> nk[3],
     parent |-> 1, vertex |-> 1]

\* the root element <mxfile>, which has none of the attributes read
RootNode == [tag |-> "mxfile", id |-> 0, style |-> <<>>, value |-> <<>>,
             parent |-> 0, vertex |-> 0]

\* root.iter() of a document: the root, then up to MaxNodes nodes below it
\* in document order, the i-th with id i
Documents ==
    UNION {{<<RootNode>> \o [i \in 1..n |-> Node(kinds[i], i)] :
                kinds \in [1..n -> NodeKinds]} : n \in 0..MaxNodes}

Files ==
    {[state |-> "missing", nodes |-> <<>>], [state |-> "malformed", nodes |-> <<>>]}
    \cup {[state |-> "ok", nodes |-> d] : d \in Documents}

\* what the file may be replaced by while a scan runs
RewrittenFiles ==
    {[state |-> "malformed", nodes |-> <<>>],
     [state |-> "ok", nodes |-> <<RootNode, Node(<<"mxCell", Marker, <<"b">> >>, 1)>>]}

\* the template configurations: without and with 'patterns', one pattern
\* or two, without and with 'parsers' and 'schema', a regex that does not
\* compile
ScanConfigs ==
    {NoKeys,
     [patterns |-> << <<"b">> >>],
     [patterns |-> << <<"b">>, <<"!", "x">> >>,
      parsers |-> << << <<"ip", Lit(<<"b">>)>> >> >>,
      schema |-> "net"],
     [patterns |-> << <<"b">>, <<"!", "x">> >>,
      parsers |-> << << <<"ip", Bad>> >> >>]}

TemplateNames == <<"T1", "T2", "T3", "T4">>

\* templates.items(): the names are the keys of a dict, so they differ
TemplateSets ==
    UNION {{[i \in 1..n |-> <<TemplateNames[i], cs[i]>>] : cs \in [1..n -> ScanConfigs]} :
              n \in 0..MaxTemplates}

FileName == "d.drawio"

InitScan ==
    /\ pattern = <<>>
    /\ style = <<>>
    /\ value = <<>>
    /\ called = "none"
    /\ ret = FALSE
    /\ retGroup = 0
    /\ template_config = NoKeys
    /\ extracted = Returned(<<>>)
    /\ matched_objects = Returned(<<>>)
    /\ disk \in Files
    /\ templates \in {[loaded |-> FALSE, items |-> <<>>]}
                     \cup {[loaded |-> TRUE, items |-> ts] : ts \in TemplateSets}
    /\ selected_file = "None"
    /\ pc = "idle"
    /\ idx = 0
    /\ results_by_template = <<>>
    /\ returned = <<>>
    /\ roots = <<>>

\* show_menu_and_select_file: the user picks the file
SelectFile ==
    /\ pc = "idle"
    /\ selected_file = "None"
    /\ selected_file' = FileName
    /\ UNCHANGED <<evalVars, extractVars, disk, templates, pc, idx,
                   results_by_template, returned, roots>>

\* find_stencils_by_all_templates(filename), up to its loop
CallFindStencils(filename) ==
    /\ pc = "idle"
    /\ LET fn == IF filename = "None" THEN selected_file ELSE filename IN
       IF fn = "None" \/ ~templates.loaded \/ templates.items = <<>>
       THEN /\ pc' = "returned"
            /\ returned' = <<>>
            /\ UNCHANGED <<idx, results_by_template>>
       ELSE /\ pc' = "loop"
            /\ idx' = 1
            /\ results_by_template' = <<>>
            /\ UNCHANGED returned
    /\ UNCHANGED <<evalVars, extractVars, disk, templates, selected_file, roots>>

\* one iteration of `for template_name, template_config in templates.items()`
IterateTemplate ==
    /\ pc = "loop"
    /\ idx <= Len(templates.items)
    /\ LET template_name == templates.items[idx][1]
           config == templates.items[idx][2]
           objects == find_objects_for_template(config, disk, template_name)
       IN /\ roots' = Append(roots, parse_drawio_structure(disk))
          /\ IF objects.raised
             THEN \* re.error leaves the loop and the method
                  /\ pc' = "raised"
                  /\ UNCHANGED <<idx, results_by_template>>
             ELSE /\ results_by_template' =
                         store_result(results_by_template, template_name, objects.val)
                  /\ idx' = idx + 1
                  /\ pc' = pc
    /\ UNCHANGED <<evalVars, extractVars, disk, templates, selected_file, returned>>

\* return results_by_template
ReturnResults ==
    /\ pc = "loop"
    /\ idx > Len(templates.items)
    /\ pc' = "returned"
    /\ returned' = results_by_template
    /\ UNCHANGED <<evalVars, extractVars, disk, templates, selected_file, idx,
                   results_by_template, roots>>

\* The environment replaces the file between two reads of it.
RewriteFile ==
    /\ pc = "loop"
    /\ 1 < idx
    /\ idx <= Len(templates.items)
    /\ disk' \in RewrittenFiles \ {disk}
    /\ UNCHANGED <<evalVars, extractVars, templates, selected_file, pc, idx,
                   results_by_template, returned, roots>>

NextScan ==
    \/ SelectFile
    \/ \E filename \in {"None", FileName} : CallFindStencils(filename)
    \/ IterateTemplate
    \/ ReturnResults
    \/ RewriteFile

SpecScan == InitScan /\ [][NextScan]_vars

---------------------------------------------------------------------------
(* Properties of the evaluators, checked under SpecEval.                   *)

Text == SearchText(style, value)

Str_a_colon_not_b == <<"a", ":", "!", "b">>
Str_a_semi_not_b == <<"a", ";", "!", "b">>
Str_a_colon_b == <<"a", ":", "b">>
Str_a_semi_b == <<"a", ";", "b">>
Str_a_or_b == <<"a", "|", "b">>
Text_contains_a_but_not_b ==
    <<"c", "o", "n", "t", "a", "i", "n", "s", " ",
      "a", " ", "b", "u", "t", " ", "n", "o", "t", " ", "b">>
Text_contains_a_and_b ==
    <<"c", "o", "n", "t", "a", "i", "n", "s", " ", "a", " ", "a", "n", "d", " ", "b">>
Text_contains_a == <<"c", "o", "n", "t", "a", "i", "n", "s", " ", "a">>
Text_xay_b_z == <<"x", "a", "y", " ", "b", " ", "z">>
\* the search text always holds the joining blank: style "xay", value ""
Text_xay == <<"x", "a", "y", " ">>
Text_only_b_here == <<"o", "n", "l", "y", " ", "b", " ", "h", "e", "r", "e">>

\* C1: for a pattern with neither '|' nor '!', the general evaluator returns
\* what the pure-AND evaluator returns, and so does the dispatch of
\* _element_matches_template.
C1_FastPathEquivalent ==
    ~HasOperator(pattern) =>
        /\ called = "complex" => ret = evaluate_simple_pattern(pattern, style, value)
        /\ called = "simple" => ret = evaluate_complex_pattern(pattern, style, value)
        /\ called = "matches" => ret = evaluate_complex_pattern(pattern, style, value)

\* a two-criterion pattern with an upper-case letter, matched by both evaluators
C1_Witness ==
    /\ called = "complex"
    /\ pattern = <<"a", ";", "B">>
    /\ style = <<"A">>
    /\ value = <<"b">>
    /\ ret = TRUE

\* C2 (as stated): "a:!b" against "contains a but not b" is true and against
\* "contains a and b" is false.
C2_AsStated ==
    (called \in {"complex", "matches"} /\ pattern = Str_a_colon_not_b) =>
        /\ Text = Text_contains_a_but_not_b => ret = TRUE
        /\ Text = Text_contains_a_and_b => ret = FALSE

\* C2 (amended): "a:!b" is false against both texts, "a:" being one positive
\* term that neither text contains; with the delimiter the code splits on,
\* "a;!b" is true against "contains a" and false against "contains a and b".
C2_Amended ==
    called \in {"complex", "matches"} =>
        /\ (pattern = Str_a_colon_not_b /\ Text = Text_contains_a_but_not_b) => ret = FALSE
        /\ (pattern = Str_a_colon_not_b /\ Text = Text_contains_a_and_b) => ret = FALSE
        /\ (pattern = Str_a_semi_not_b /\ Text = Text_contains_a) => ret = TRUE
        /\ (pattern = Str_a_semi_not_b /\ Text = Text_contains_a_and_b) => ret = FALSE

C2_Witness ==
    /\ called = "complex"
    /\ pattern = Str_a_colon_not_b
    /\ Text = Text_contains_a_but_not_b
    /\ ret = FALSE

\* C3 (as stated): ':' separates AND terms: "a:b" against "xay b z" is true
\* and against "xay" is false.
C3_AsStated ==
    (called \in {"simple", "matches"} /\ pattern = Str_a_colon_b) =>
        /\ Text = Text_xay_b_z => ret = TRUE
        /\ Text = Text_xay => ret = FALSE

\* C3 (amended): ';' separates AND terms and ':' is ordinary text: "a;b"
\* against "xay b z" is true and against "xay" false; "a:b" is false against
\* both, "a:b" being a substring of neither.
C3_Amended ==
    called \in {"simple", "matches"} =>
        /\ (pattern = Str_a_semi_b /\ Text = Text_xay_b_z) => ret = TRUE
        /\ (pattern = Str_a_semi_b /\ Text = Text_xay) => ret = FALSE
        /\ (pattern = Str_a_colon_b /\ Text \in {Text_xay_b_z, Text_xay}) => ret = FALSE

C3_Witness ==
    /\ called = "matches"
    /\ pattern = Str_a_semi_b
    /\ Text = Text_xay_b_z
    /\ ret = TRUE

\* the OR-parts of the pattern that match the search text on their own
MatchingOrParts ==
    LET or_parts == Split(pattern, "|")
    IN {k \in 1..Len(or_parts) : or_part_match(or_parts[k], Text)}

\* C4: the general evaluator returns true iff at least one '|'-separated
\* part matches the search text, and the part that decides is the leftmost
\* matching one; "a|b" against "only b here" is true.
C4_OrOfGroups ==
    called = "complex" =>
        /\ ret = (MatchingOrParts # {})
        /\ retGroup = IF MatchingOrParts = {} THEN 0
                      ELSE CHOOSE k \in MatchingOrParts :
                               \A m \in MatchingOrParts : k <= m
        /\ (pattern = Str_a_or_b /\ Text = Text_only_b_here) => ret = TRUE

C4_Witness ==
    /\ called = "complex"
    /\ pattern = Str_a_or_b
    /\ Text = Text_only_b_here
    /\ ret = TRUE
    /\ retGroup = 2

\* A ';'-separated piece with no term text: blanks, with at most one '!'.
BlankTerm(piece) ==
    /\ \A i \in 1..Len(piece) : piece[i] \in {" ", "!"}
    /\ Cardinality({i \in 1..Len(piece) : piece[i] = "!"}) <= 1

\* An OR-group whose terms are all empty after trimming.
VacuousGroup(g) ==
    LET pieces == Split(g, ";")
    IN \A k \in 1..Len(pieces) : BlankTerm(pieces[k])

HasVacuousGroup(p) ==
    LET or_parts == Split(p, "|")
    IN \E k \in 1..Len(or_parts) : VacuousGroup(or_parts[k])

\* C5: a pattern with an OR-group all of whose terms are empty after
\* trimming (the empty pattern, a pattern of delimiters, operators and blanks
\* only, a leading or trailing '|') is true for every search text.
C5_VacuousTrue ==
    HasVacuousGroup(pattern) =>
        /\ called \in {"complex", "matches"} => ret = TRUE
        /\ (called = "simple" /\ ~HasOperator(pattern)) => ret = TRUE

\* "a|! ": 'a' is not in the text, the second group is an empty negation
C5_Witness ==
    /\ called = "complex"
    /\ pattern = <<"a", "|", "!", " ">>
    /\ ~Contains(<<"a">>, Text)
    /\ ret = TRUE
    /\ retGroup = 2

\* A non-empty term without operator or delimiter characters, blanks around
\* it allowed.
IsTerm(t) ==
    /\ Strip(t) # <<>>
    /\ \A i \in 1..Len(t) : t[i] \notin {";", "|", "!"}

InText(t) == Contains(Lower(Strip(t)), Text)

\* C6: "!A;B" is true iff A is not in the search text and B is in it;
\* "!A|B" is true iff A is not in the search text or B is in it.
C6_NegationScope ==
    called \in {"complex", "matches"} =>
        \A k \in 2..Len(pattern) :
            LET A == SubSeq(pattern, 2, k - 1)
                B == SubSeq(pattern, k + 1, Len(pattern))
            IN (pattern[1] = "!" /\ pattern[k] \in {";", "|"} /\ IsTerm(A) /\ IsTerm(B)) =>
                   ret = IF pattern[k] = ";"
                         THEN ~InText(A) /\ InText(B)
                         ELSE ~InText(A) \/ InText(B)

\* "!a;B" against a text without 'a' and with 'b'
C6_Witness ==
    /\ called = "complex"
    /\ pattern = <<"!", "a", ";", "B">>
    /\ style = <<>>
    /\ value = <<"b">>
    /\ ret = TRUE

---------------------------------------------------------------------------
(* Properties of the extractor, checked under SpecExtract.                 *)

\* The (field name, regex) pairs of a configuration, in the order the two
\* loops of _extract_data_from_element visit them.
RECURSIVE Concat(_)
Concat(ss) == IF ss = <<>> THEN <<>> ELSE Head(ss) \o Concat(Tail(ss))

Extractors(config) ==
    IF "parsers" \in DOMAIN config THEN Concat(config["parsers"]) ELSE <<>>

\* the extractors named n that find at least one match in va
Finders(config, n, va) ==
    {k \in 1..Len(Extractors(config)) :
        /\ Extractors(config)[k][1] = n
        /\ ~findall_raises(Extractors(config)[k][2])
        /\ findall(Extractors(config)[k][2], va) # <<>>}

\* every key of d names an extractor that matched in va, no key is bound to
\* the empty sequence, and no key occurs twice
FieldsJustified(d, config, va) ==
    /\ \A j \in 1..Len(d) :
          /\ d[j][2] # <<>>
          /\ Finders(config, d[j][1], va) # {}
    /\ \A i, j \in 1..Len(d) : d[i][1] = d[j][1] => i = j

ElementMatched ==
    /\ IsCandidate(TheElement)
    /\ element_matches_template(style, value, template_config)

\* C9: extracted_data of a match record has a key only for a field whose
\* extractor found a match in the element's value, never bound to an empty
\* sequence; a matching template without a 'parsers' key yields one record
\* whose extracted_data is the empty mapping.
C9_FieldsOnlyWhenMatched ==
    /\ (called = "extract" /\ ~extracted.raised) =>
           FieldsJustified(extracted.val, template_config, value)
    /\ (called = "find_step" /\ ~matched_objects.raised) =>
           \A i \in 1..Len(matched_objects.val) :
               FieldsJustified(matched_objects.val[i].extracted_data,
                               template_config, matched_objects.val[i].value)
    /\ (called = "find_step" /\ ElementMatched /\ "parsers" \notin DOMAIN template_config) =>
           /\ ~matched_objects.raised
           /\ Len(matched_objects.val) = 1
           /\ matched_objects.val[1].extracted_data = <<>>

\* a record with 'ip' bound while the 'host' extractor found nothing
C9_Witness ==
    /\ called = "find_step"
    /\ ~matched_objects.raised
    /\ Len(matched_objects.val) = 1
    /\ "parsers" \in DOMAIN template_config
    /\ template_config["parsers"] =
           << << <<"ip", Lit(<<"a">>)>> >>, << <<"host", Lit(<<"b">>)>> >> >>
    /\ matched_objects.val[1].extracted_data = << <<"ip", << <<"A">> >> >> >>

Last(S) == CHOOSE k \in S : \A m \in S : m <= k

\* the names more than one extractor of the configuration carries
DuplicateNames(config) ==
    {Extractors(config)[k][1] : k \in
        {k \in 1..Len(Extractors(config)) :
            \E m \in 1..Len(Extractors(config)) :
                m # k /\ Extractors(config)[m][1] = Extractors(config)[k][1]}}

\* C10 (as stated): a name several extractors carry is bound to the result
\* of the last extractor with that name, whatever the earlier ones matched.
C10_AsStated ==
    (called = "extract" /\ ~extracted.raised) =>
        \A n \in DuplicateNames(template_config) :
            LET last == Last({k \in 1..Len(Extractors(template_config)) :
                                 Extractors(template_config)[k][1] = n})
            IN n \in DictKeys(extracted.val) =>
                   DictGet(extracted.val, n) =
                       findall(Extractors(template_config)[last][2], value)

\* C10 (amended): a name several extractors carry is bound to the result of
\* the last extractor with that name that found at least one match; an
\* extractor that finds nothing leaves an earlier binding in place, and the
\* name is unbound only when none of them matched.
C10_Amended ==
    (called = "extract" /\ ~extracted.raised) =>
        \A n \in DuplicateNames(template_config) :
            LET found == Finders(template_config, n, value)
            IN IF found = {} THEN n \notin DictKeys(extracted.val)
               ELSE /\ n \in DictKeys(extracted.val)
                    /\ DictGet(extracted.val, n) =
                           findall(Extractors(template_config)[Last(found)][2], value)

\* two 'ip' extractors that both match: the later result replaced the earlier
C10_Witness ==
    /\ called = "extract"
    /\ value = <<"a", "b">>
    /\ "parsers" \in DOMAIN template_config
    /\ template_config["parsers"] =
           << << <<"ip", Lit(<<"a">>)>> >>, << <<"ip", Lit(<<"b">>)>> >> >>
    /\ extracted = Returned(<< <<"ip", << <<"b">> >> >> >>)

---------------------------------------------------------------------------
(* Properties of the scan, checked under SpecScan.                         *)

ConfigOf(template_name) ==
    templates.items[CHOOSE i \in 1..Len(templates.items) :
                        templates.items[i][1] = template_name][2]

\* at least one pattern of the configuration evaluates true on the element
SomePatternTrue(element, config) ==
    /\ "patterns" \in DOMAIN config
    /\ \E k \in 1..Len(config["patterns"]) :
           IF HasOperator(config["patterns"][k])
           THEN evaluate_complex_pattern(config["patterns"][k], element.style, element.value)
           ELSE evaluate_simple_pattern(config["patterns"][k], element.style, element.value)

\* positions in the parsed document of the candidate elements the
\* configuration matches
MatchingPositions(root, config) ==
    {i \in 1..Len(root.nodes) :
        /\ root.nodes[i].tag = "mxCell"
        /\ Contains(Marker, Lower(root.nodes[i].style))
        /\ SomePatternTrue(root.nodes[i], config)}

\* The list holds one record for each matching position and no other, in
\* document order.  Ids are unique in a document, so a record's id names
\* the position of its element.
ListIsMatchingSubsequence(list, root, config, template_name) ==
    LET matching == MatchingPositions(root, config)
        position(j) == CHOOSE i \in 1..Len(root.nodes) : root.nodes[i].id = list[j].id
    IN /\ Len(list) = Cardinality(matching)
       /\ {position(j) : j \in 1..Len(list)} = matching
       /\ \A j \in 1..Len(list) :
             /\ j < Len(list) => position(j) < position(j + 1)
             /\ list[j].style = root.nodes[position(j)].style
             /\ list[j].value = root.nodes[position(j)].value
             /\ list[j].matched_type = template_name

\* C7: the list stored under a template's name is the document-order
\* subsequence of the candidate elements (tag mxCell, lower-cased style
\* containing 'shape=stencil(') for which at least one pattern of the
\* template is true: one record per such element and template, none for
\* any other node.  The document is the one parsed in that template's
\* iteration.
C7_ListIsMatchingSubsequence ==
    \A k \in 1..Len(results_by_template) :
        ListIsMatchingSubsequence(results_by_template[k][2], roots[k],
                                  ConfigOf(results_by_template[k][1]),
                                  results_by_template[k][1])

\* two templates; the element with value b satisfies both patterns of the
\* first and the pattern of the second, and is once in each list; the
\* element with value x is in neither
C7_Witness ==
    /\ pc = "returned"
    /\ Len(returned) = 2
    /\ Len(roots) = 2
    /\ roots[1] = roots[2]
    /\ roots[1].ok
    /\ Len(roots[1].nodes) = 3
    /\ roots[1].nodes[2].value = <<"x">>
    /\ roots[1].nodes[3].value = <<"b">>
    /\ IsCandidate(roots[1].nodes[2])
    /\ IsCandidate(roots[1].nodes[3])
    /\ "patterns" \in DOMAIN ConfigOf("T1")
    /\ Len(ConfigOf("T1")["patterns"]) = 2
    /\ Len(returned[1][2]) = 1
    /\ returned[1][2][1].id = 2
    /\ Len(returned[2][2]) = 1
    /\ returned[2][2][1].id = 2

TemplateNameList == [i \in 1..Len(templates.items) |-> templates.items[i][1]]

\* the scan ran its loop to the end: a file was named and templates loaded
ScanCompleted == pc = "returned" /\ roots # <<>>

NoCandidates(root) == \A i \in 1..Len(root.nodes) : ~IsCandidate(root.nodes[i])

\* C8: the mapping a completed scan returns has exactly the template names
\* as keys (here: in the templates' order), a template without matches being
\* mapped to the empty list, as is every template when the document has no
\* candidate element.
C8_EveryTemplateHasEntry ==
    ScanCompleted =>
        /\ [i \in 1..Len(returned) |-> returned[i][1]] = TemplateNameList
        /\ \A k \in 1..Len(returned) :
               NoCandidates(roots[k]) => returned[k][2] = <<>>

\* a parsed document without candidate elements, two templates with patterns
C8_Witness ==
    /\ ScanCompleted
    /\ Len(returned) = 2
    /\ \A k \in 1..2 :
          /\ roots[k].ok
          /\ Len(roots[k].nodes) = 3
          /\ NoCandidates(roots[k])
          /\ "patterns" \in DOMAIN templates.items[k][2]
          /\ returned[k][2] = <<>>

---------------------------------------------------------------------------
\* an extractor of the configuration has a regex that does not compile
HasBadExtractor(config) ==
    /\ "parsers" \in DOMAIN config
    /\ \E p \in 1..Len(config["parsers"]) :
          \E q \in 1..Len(config["parsers"][p]) :
              findall_raises(config["parsers"][p][q][2])

\* C11: a template whose extractor regex is malformed does not abort the
\* scan: no exception leaves find_stencils_by_all_templates, whose loop goes
\* on to the return of a result for every template.
C11_BrokenRegexDoesNotAbort ==
    (\E k \in 1..Len(templates.items) : HasBadExtractor(templates.items[k][2]))
        => pc # "raised"

\* a document that parses and has the root element only
EmptyDocument == [state |-> "ok", nodes |-> <<RootNode>>]

AllUnparsed == \A k \in 1..Len(roots) : ~roots[k].ok

\* C12: when the document cannot be read or parsed, the value the scan
\* returns differs from the value it returns for a document that parses and
\* has no match.
C12_FailureIsDistinct ==
    (ScanCompleted /\ AllUnparsed)
        => Returned(returned) # find_stencils_loop(templates.items, EmptyDocument, <<>>)

WithPatterns(config) == "patterns" \in DOMAIN config

\* no rewrite was seen by the scan: every iteration parsed the file as it is
FileUnchanged == \A k \in 1..Len(roots) : roots[k] = parse_drawio_structure(disk)

\* C13: a template without a 'patterns' key has the empty list as its entry
\* whatever the document is, its iteration raises nothing, and the entries of
\* the other templates are those of the scan without it.
C13_NoPatternsNeverMatches ==
    /\ \A k \in 1..Len(results_by_template) :
           ~WithPatterns(ConfigOf(results_by_template[k][1]))
               => results_by_template[k][2] = <<>>
    /\ pc = "raised" => WithPatterns(templates.items[idx][2])
    /\ (ScanCompleted /\ FileUnchanged)
           => Returned(SelectSeq(returned, LAMBDA e : WithPatterns(ConfigOf(e[1]))))
                  = find_stencils_loop(
                        SelectSeq(templates.items, LAMBDA e : WithPatterns(e[2])),
                        disk, <<>>)

\* a template without 'patterns' before one with patterns, on a document
\* with a stencil the second template accepts
C13_Witness ==
    /\ ScanCompleted
    /\ FileUnchanged
    /\ Len(returned) = 2
    /\ templates.items[1][2] = NoKeys
    /\ WithPatterns(templates.items[2][2])
    /\ roots[1].ok
    /\ \E i \in 1..Len(roots[1].nodes) : IsCandidate(roots[1].nodes[i])
    /\ returned[1][2] = <<>>
    /\ returned[2][2] # <<>>

\* C15: within one call every template is evaluated against the same
\* document content, also when the file is rewritten or becomes unreadable
\* while the scan runs: all iterations work on one snapshot.
C15_OneSnapshot ==
    \A j, k \in 1..Len(roots) : roots[j] = roots[k]

---------------------------------------------------------------------------
\* pattern is A!B: terms A and B around the '!' at position i
IsTermBangTerm(i) ==
    /\ pattern[i] = "!"
    /\ IsTerm(SubSeq(pattern, 1, i - 1))
    /\ IsTerm(SubSeq(pattern, i + 1, Len(pattern)))

\* C16 as stated: a '!' after other text is ordinary text, so "A!B" is true
\* exactly when the literal text "A!B" is a substring of the search text.
C16_AsStated ==
    called \in {"complex", "matches"} =>
        \A i \in 1..Len(pattern) :
            IsTermBangTerm(i) => ret = InText(pattern)

\* pattern is '!' followed by text without ';' and '|'
IsOneNegatedPart ==
    /\ pattern # <<>>
    /\ pattern[1] = "!"
    /\ \A i \in 2..Len(pattern) : pattern[i] \notin {";", "|"}

\* C16 amended: a '!' after other text also opens a negated term: "A!B" is
\* true exactly when A is in the search text and B is not.  Only inside a
\* negated term is a further '!' ordinary text: '!' followed by text without
\* ';' and '|' is true exactly when that text, trimmed, is empty or not a
\* substring.
C16_Amended ==
    called \in {"complex", "matches"} =>
        /\ \A i \in 1..Len(pattern) :
               IsTermBangTerm(i) =>
                   ret = (/\ InText(SubSeq(pattern, 1, i - 1))
                          /\ ~InText(SubSeq(pattern, i + 1, Len(pattern))))
        /\ IsOneNegatedPart =>
               ret = (Strip(Tail(pattern)) = <<>> \/ ~InText(Tail(pattern)))

\* "a!B" on a search text that has a, no b and so no "a!b": true
C16_Witness ==
    /\ called = "complex"
    /\ pattern = <<"a", "!", "B">>
    /\ style = <<"A">>
    /\ value = <<>>
    /\ ~InText(pattern)
    /\ ret

=============================================================================
